---- MODULE Spec2Model ----
(***************************************************************************)
(* utl::integral::BigUint<bits_to_fit> (src/include/UTL/integral.hpp).     *)
(*                                                                         *)
(* A BigUint is modelled by its word storage 's': a function from the word *)
(* index 0..words-1 to a word value.  The word width is a parameter of the *)
(* model (the source fixes word_type to 32 bits and notes that the logic   *)
(* is generic in the word size); carry_type and wide_type are twice as     *)
(* wide as a word, as in the source (64 against 32).  Every native         *)
(* operation is reduced modulo the width of its C++ type.                  *)
(***************************************************************************)
EXTENDS Integers, Sequences, FiniteSets, TLC

\* ---------------------------------------------------------------- bounds
\* Width of word_type in bits (32 in the source, scaled down).
word_bits == 2

\* Largest template argument bits_to_fit that is instantiated.
MaxBits == 5

\* Width in bits of the integer types int and unsigned the math:: functions
\* are instantiated with (32 on the targets of the source, scaled down).
int_bits == 4

\* Number of single-bit enumerators of the enum E given to bit::Flags<E>
\* (IOMode of the tests has IN, OUT, APP).
NumFlags == 3

\* Width in bits of the integer types short and unsigned short, the narrower
\* types saturate_cast converts to (16 on the targets of the source, scaled
\* down; narrower than int).
short_bits == 3

\* Width in bits of std::size_t, the type of every index and shift amount
\* (64 on the targets of the source, scaled down).
size_t_bits == 5

VARIABLES bits_to_fit, x, y, op, arg, res, quot, rem, ret, fault, touched,
          steps, T, n1, n2, data, last

vars == <<bits_to_fit, x, y, op, arg, res, quot, rem, ret, fault, touched,
          steps, T, n1, n2, data, last>>

\* the operands of the native-integer functions and the bit::Flags object
native == <<T, n1, n2, data, last>>

\* ------------------------------------------------- native integer types
carry_bits == 2 * word_bits

wide_bits == 2 * word_bits

Pow2(n) == 2 ^ n

WordMod == Pow2(word_bits)

WordMax == WordMod - 1

CarryMod == Pow2(carry_bits)

WideMod == Pow2(wide_bits)

Word == 0 .. WordMax

\* value << shift, in an unsigned type of 'width' bits (0 <= shift < width)
Shl(value, shift, width) == (value * Pow2(shift)) % Pow2(width)

\* value >> shift, in an unsigned type (0 <= shift < width)
Shr(value, shift) == value \div Pow2(shift)

RECURSIVE BitOr(_, _)
BitOr(a, b) ==
    IF a = 0 THEN b
    ELSE IF b = 0 THEN a
    ELSE (IF a % 2 = 1 \/ b % 2 = 1 THEN 1 ELSE 0) + 2 * BitOr(a \div 2, b \div 2)

RECURSIVE BitAnd(_, _)
BitAnd(a, b) ==
    IF a = 0 \/ b = 0 THEN 0
    ELSE (IF a % 2 = 1 /\ b % 2 = 1 THEN 1 ELSE 0) + 2 * BitAnd(a \div 2, b \div 2)

RECURSIVE BitXor(_, _)
BitXor(a, b) ==
    IF a = 0 THEN b
    ELSE IF b = 0 THEN a
    ELSE (IF a % 2 # b % 2 THEN 1 ELSE 0) + 2 * BitXor(a \div 2, b \div 2)

\* ~w in word_type
WordNot(w) == WordMax - w

\* ------------------------------------------------------- math:: helpers
Abs(n) == IF n < 0 THEN 0 - n ELSE n

\* the built-in / on integers: the quotient truncated toward zero
native_div(dividend, divisor) ==
    IF (dividend < 0) = (divisor < 0)
    THEN Abs(dividend) \div Abs(divisor)
    ELSE 0 - (Abs(dividend) \div Abs(divisor))

\* the built-in % on integers: the remainder has the sign of the dividend
native_rem(dividend, divisor) == dividend - divisor * native_div(dividend, divisor)

\* div_floor that lowers every inexact quotient, whatever the signs
div_floor_no_sign(dividend, divisor) ==
    native_div(dividend, divisor)
        - (IF native_rem(dividend, divisor) # 0 THEN 1 ELSE 0)

div_floor(dividend, divisor) ==
    LET quotient_negative == (dividend < 0) # (divisor < 0)
    IN  native_div(dividend, divisor)
            - (IF native_rem(dividend, divisor) # 0 /\ quotient_negative THEN 1 ELSE 0)

div_ceil(dividend, divisor) ==
    LET quotient_positive == (dividend < 0) = (divisor < 0)
    IN  native_div(dividend, divisor)
            + (IF native_rem(dividend, divisor) # 0 /\ quotient_positive THEN 1 ELSE 0)

reverse_idx(idx, size) == size - 1 - idx

min(lhs, rhs) == IF lhs < rhs THEN lhs ELSE rhs

\* ------------------------------------------------------- bits:: helpers
bits_get(value, bit) == BitAnd(Shr(value, bit), 1) # 0

bits_set(value, bit, state) ==
    BitOr(value, Shl(IF state THEN 1 ELSE 0, bit, word_bits))

\* flip written with |= instead of ^=
bits_flip_or(value, bit) == BitOr(value, Shl(1, bit, word_bits))

bits_flip(value, bit) == BitXor(value, Shl(1, bit, word_bits))

RECURSIVE bit_width(_)
bit_width(value) == IF value = 0 THEN 0 ELSE 1 + bit_width(Shr(value, 1))

\* ------------------------------------------------ BigUint static members
words == div_ceil(bits_to_fit, word_bits)

bits == words * word_bits

size == bits_to_fit

carry_threshold == WordMax + 1

\* word_storage_type s{}: value-initialised storage
Zero == [i \in 0 .. words - 1 |-> 0]

\* carry_storage_type carry{}
ZeroCarry == [i \in 0 .. words |-> 0]

\* every value of the instantiation
BigUintValues == [0 .. words - 1 -> Word]

\* ---------------------------------------------------------- constructors
RECURSIVE FromWideLoop(_, _, _)
FromWideLoop(s, number, i) ==
    IF i >= min(wide_bits \div word_bits, words) THEN s
    ELSE FromWideLoop([s EXCEPT ![i] = Shr(number, word_bits * i) % WordMod],
                      number, i + 1)

\* the constructor keeping only the low 'size' bits of number
FromWide_size_bits(number) == FromWideLoop(Zero, number % Pow2(size), 0)

\* BigUint(wide_type number)
FromWide(number) == FromWideLoop(Zero, number, 0)

\* ----------------------------------------------------------------- add
\* add with the carry into the next word left out
RECURSIVE add_loop_no_carry(_, _, _, _)
add_loop_no_carry(s, t, carry, i) ==
    IF i >= words THEN s
    ELSE LET c1 == [carry EXCEPT ![i] = (@ + s[i] + t[i]) % CarryMod]
         IN  add_loop_no_carry([s EXCEPT ![i] = c1[i] % WordMod], t, c1, i + 1)

RECURSIVE add_loop(_, _, _, _)
add_loop(s, t, carry, i) ==
    IF i >= words THEN s
    ELSE LET c1 == [carry EXCEPT ![i] = (@ + s[i] + t[i]) % CarryMod]
             c2 == IF c1[i] >= carry_threshold
                   THEN [c1 EXCEPT ![i + 1] = (@ + 1) % CarryMod,
                                   ![i] = @ - carry_threshold]
                   ELSE c1
         IN  add_loop([s EXCEPT ![i] = c2[i] % WordMod], t, c2, i + 1)

add(s, t) == add_loop(s, t, ZeroCarry, 0)

\* ------------------------------------------------------- bit operators
RECURSIVE bitwise_flip_loop(_, _)
bitwise_flip_loop(s, i) ==
    IF i >= words THEN s
    ELSE bitwise_flip_loop([s EXCEPT ![i] = WordNot(s[i])], i + 1)

bitwise_flip(s) == bitwise_flip_loop(s, 0)

\* the offset == 0 loop of bitwise_lshift: i runs from words-1 down to wshift
RECURSIVE lshift_words_loop(_, _, _)
lshift_words_loop(s, wshift, i) ==
    IF i < wshift THEN s
    ELSE lshift_words_loop([s EXCEPT ![i] = s[i - wshift]], wshift, i - 1)

\* the offset # 0 loop of bitwise_lshift without the bits carried in from the
\* word below
RECURSIVE lshift_bits_loop_no_carry_in(_, _, _, _)
lshift_bits_loop_no_carry_in(s, wshift, offset, i) ==
    IF i <= wshift THEN s
    ELSE lshift_bits_loop_no_carry_in(
             [s EXCEPT ![i] = Shl(s[i - wshift], offset, word_bits)],
             wshift, offset, i - 1)

\* the offset # 0 loop of bitwise_lshift: i runs from words-1 down to wshift+1
RECURSIVE lshift_bits_loop(_, _, _, _)
lshift_bits_loop(s, wshift, offset, i) ==
    IF i <= wshift THEN s
    ELSE lshift_bits_loop(
             [s EXCEPT ![i] = BitOr(Shl(s[i - wshift], offset, word_bits),
                                    Shr(s[i - wshift - 1], word_bits - offset))],
             wshift, offset, i - 1)

\* zero-fill of words from..to-1
RECURSIVE zero_fill(_, _, _)
zero_fill(s, from, to) ==
    IF from >= to THEN s
    ELSE zero_fill([s EXCEPT ![from] = 0], from + 1, to)

bitwise_lshift(s, shift) ==
    IF shift = 0 THEN s
    ELSE IF shift >= bits THEN Zero
    ELSE LET wshift == shift \div word_bits
             offset == shift % word_bits
             moved  == IF offset = 0
                       THEN lshift_words_loop(s, wshift, words - 1)
                       ELSE LET t == lshift_bits_loop(s, wshift, offset, words - 1)
                            IN  [t EXCEPT ![wshift] = Shl(t[0], offset, word_bits)]
         IN  zero_fill(moved, 0, wshift)

\* the offset == 0 loop of bitwise_rshift: i runs from 0 up to limit
RECURSIVE rshift_words_loop(_, _, _, _)
rshift_words_loop(s, wshift, limit, i) ==
    IF i > limit THEN s
    ELSE rshift_words_loop([s EXCEPT ![i] = s[i + wshift]], wshift, limit, i + 1)

\* the offset # 0 loop of bitwise_rshift: i runs from 0 up to limit-1
RECURSIVE rshift_bits_loop(_, _, _, _, _)
rshift_bits_loop(s, wshift, offset, limit, i) ==
    IF i >= limit THEN s
    ELSE rshift_bits_loop(
             [s EXCEPT ![i] = BitOr(Shr(s[i + wshift], offset),
                                    Shl(s[i + wshift + 1], word_bits - offset, word_bits))],
             wshift, offset, limit, i + 1)

bitwise_rshift(s, shift) ==
    IF shift = 0 THEN s
    ELSE IF shift >= bits THEN Zero
    ELSE LET wshift == shift \div word_bits
             offset == shift % word_bits
             limit  == words - wshift - 1
             moved  == IF offset = 0
                       THEN rshift_words_loop(s, wshift, limit, 0)
                       ELSE LET t == rshift_bits_loop(s, wshift, offset, limit, 0)
                            IN  [t EXCEPT ![limit] = Shr(t[words - 1], offset)]
         IN  zero_fill(moved, limit + 1, words)

\* ----------------------------------------------------------- arithmetic
\* increment(x): ++x.word(0) unless word 0 is within 2 of the radix
increment(s) ==
    IF s[0] < carry_threshold - 2 THEN [s EXCEPT ![0] = (@ + 1) % WordMod]
    ELSE add(s, FromWide(1))

\* substract with the ++temp left out: x + ~y
substract_no_increment(s, t) == add(s, bitwise_flip(t))

\* substract(x, y): temp = ~y; ++temp; add(x, temp)
substract(s, t) == add(s, increment(bitwise_flip(t)))

\* decrement that only steps word 0 down
decrement_word_only(s) == [s EXCEPT ![0] = (@ - 1) % WordMod]

\* decrement(x): --x.word(0) unless word 0 is zero
decrement(s) ==
    IF s[0] > 0 THEN [s EXCEPT ![0] = (@ - 1) % WordMod]
    ELSE substract(s, FromWide(1))

\* ------------------------------------------------------------- getters
\* bit_get(bit): bits::get(word(bit / word_bits), bit % word_bits)
bit_get(s, bit) == bits_get(s[bit \div word_bits], bit % word_bits)

\* bit_set(bit, value): bits::set(word(bit / word_bits), bit % word_bits, value)
bit_set(s, bit, value) ==
    [s EXCEPT ![bit \div word_bits] = bits_set(@, bit % word_bits, value)]

\* bit_flip(bit): bits::flip(word(bit / word_bits), bit % word_bits)
bit_flip(s, bit) ==
    [s EXCEPT ![bit \div word_bits] = bits_flip(@, bit % word_bits)]

RECURSIVE significant_bits_loop(_, _)
significant_bits_loop(s, i) ==
    IF i >= words THEN 0
    ELSE LET reverse_i     == reverse_idx(i, words)
             word_sig_bits == bit_width(s[reverse_i])
         IN  IF word_sig_bits # 0 THEN i * word_bits + word_sig_bits
             ELSE significant_bits_loop(s, i + 1)

significant_bits(s) == significant_bits_loop(s, 0)

RECURSIVE significant_words_loop(_, _)
significant_words_loop(s, i) ==
    IF i >= words THEN 0
    ELSE LET reverse_i == reverse_idx(i, words)
         IN  IF s[reverse_i] # 0 THEN reverse_i + 1
             ELSE significant_words_loop(s, i + 1)

significant_words(s) == significant_words_loop(s, 0)

\* explicit operator bool
to_bool(s) == \E i \in 0 .. words - 1 : s[i] # 0

\* ----------------------------------------------------------- comparison
RECURSIVE eq_loop(_, _, _)
eq_loop(s, t, i) ==
    IF i >= words THEN TRUE
    ELSE IF s[i] # t[i] THEN FALSE
    ELSE eq_loop(s, t, i + 1)

\* operator==
op_eq(s, t) == eq_loop(s, t, 0)

RECURSIVE le_loop(_, _, _)
le_loop(s, t, i) ==
    IF i >= words THEN FALSE
    ELSE IF s[i] <= t[i] THEN TRUE
    ELSE le_loop(s, t, i + 1)

\* operator<=
op_le(s, t) == le_loop(s, t, 0)

RECURSIVE lt_loop(_, _, _)
lt_loop(s, t, i) ==
    IF i >= words THEN FALSE
    ELSE IF s[i] < t[i] THEN TRUE
    ELSE lt_loop(s, t, i + 1)

\* operator<
op_lt(s, t) == lt_loop(s, t, 0)

\* operator>=
op_ge(s, t) == ~op_lt(s, t)

\* operator>
op_gt(s, t) == ~op_le(s, t)

\* ------------------------------------------------------- multiplication
\* short_multiply with the high half of each product dropped
RECURSIVE short_multiply_loop_no_carry(_, _, _, _)
short_multiply_loop_no_carry(s, w, carry, i) ==
    IF i >= words THEN s
    ELSE LET c1 == [carry EXCEPT ![i] = (@ + s[i] * w) % CarryMod]
         IN  short_multiply_loop_no_carry([s EXCEPT ![i] = c1[i] % WordMod],
                                          w, c1, i + 1)

RECURSIVE short_multiply_loop(_, _, _, _)
short_multiply_loop(s, w, carry, i) ==
    IF i >= words THEN s
    ELSE LET c1 == [carry EXCEPT ![i] = (@ + s[i] * w) % CarryMod]
             c2 == [c1 EXCEPT ![i + 1] = (@ + Shr(c1[i], word_bits)) % CarryMod]
         IN  short_multiply_loop([s EXCEPT ![i] = c2[i] % WordMod], w, c2, i + 1)

short_multiply(s, w) == short_multiply_loop(s, w, ZeroCarry, 0)

RECURSIVE long_multiply_loop(_, _, _, _)
long_multiply_loop(s, t, acc, digit) ==
    IF digit >= significant_words(t) THEN acc
    ELSE LET sum_for_digit ==
                 bitwise_lshift(short_multiply(s, t[digit]), digit * word_bits)
         IN  long_multiply_loop(s, t, add(acc, sum_for_digit), digit + 1)

long_multiply(s, t) == long_multiply_loop(s, t, Zero, 0)

multiply(s, t) ==
    LET x_sig_words == significant_words(s)
        y_sig_words == significant_words(t)
    IN  IF x_sig_words >= y_sig_words
        THEN IF y_sig_words <= 1 THEN short_multiply(s, t[0])
             ELSE long_multiply(s, t)
        ELSE IF x_sig_words <= 1 THEN short_multiply(t, s[0])
             ELSE long_multiply(t, s)

\* ------------------------------------------------------------- division
\* The quotient and remainder travel together as a record [quot, rem].
RECURSIVE short_divide_loop(_, _, _, _, _)
short_divide_loop(qr, s, w, carry, i) ==
    IF i >= words THEN qr
    ELSE LET reverse_i == reverse_idx(i, words)
             c  == BitOr(Shl(carry, word_bits, carry_bits), s[reverse_i])
             q1 == [qr.quot EXCEPT ![reverse_i] = (c \div w) % WordMod]
             r1 == [qr.rem EXCEPT ![reverse_i] = (c % w) % WordMod]
         IN  short_divide_loop([quot |-> q1, rem |-> r1], s, w, r1[reverse_i], i + 1)

short_divide(qr, s, w) == short_divide_loop(qr, s, w, 0, 0)

RECURSIVE long_divide_loop(_, _, _, _, _)
long_divide_loop(qr, s, t, sig_bits, i) ==
    IF i >= sig_bits THEN qr
    ELSE LET r1 == bitwise_lshift(qr.rem, 1)
             r2 == bit_set(r1, 0, bit_get(s, reverse_idx(i, sig_bits)))
         IN  IF op_ge(r2, t)
             THEN long_divide_loop(
                      [quot |-> bit_set(qr.quot, reverse_idx(i, sig_bits), TRUE),
                       rem  |-> substract(r2, t)],
                      s, t, sig_bits, i + 1)
             ELSE long_divide_loop([quot |-> qr.quot, rem |-> r2], s, t, sig_bits, i + 1)

\* long_divide past its assert(y)
long_divide(s, t) ==
    long_divide_loop([quot |-> Zero, rem |-> Zero], s, t, significant_bits(s), 0)

\* divide whose single-word path stores the quotient in rem as well
divide_rem_quotient(qr, s, t) ==
    LET x_sig_words == significant_words(s)
        y_sig_words == significant_words(t)
    IN  IF x_sig_words <= 1 /\ y_sig_words <= 1
        THEN [quot |-> [qr.quot EXCEPT ![0] = s[0] \div t[0]],
              rem  |-> [qr.rem EXCEPT ![0] = s[0] \div t[0]]]
        ELSE IF y_sig_words = 1 THEN short_divide(qr, s, t[0])
        ELSE long_divide(s, t)

\* divide(quot, rem, x, y) away from the native division by zero;
\* qr holds quot and rem as the caller passed them in
divide(qr, s, t) ==
    LET x_sig_words == significant_words(s)
        y_sig_words == significant_words(t)
    IN  IF x_sig_words <= 1 /\ y_sig_words <= 1
        THEN [quot |-> [qr.quot EXCEPT ![0] = s[0] \div t[0]],
              rem  |-> [qr.rem EXCEPT ![0] = s[0] % t[0]]]
        ELSE IF y_sig_words = 1 THEN short_divide(qr, s, t[0])
        ELSE long_divide(s, t)

\* self q{}, r{} of operator/= and operator%=
FreshQR == [quot |-> Zero, rem |-> Zero]

\* -------------------------------------------------------- serialization
\* to_int shifting word i by i bits instead of i words
RECURSIVE to_int_loop_bit_shift(_, _, _)
to_int_loop_bit_shift(s, acc, i) ==
    IF i >= min(wide_bits \div word_bits, words) THEN acc
    ELSE to_int_loop_bit_shift(s, BitOr(acc, Shl(s[i], i, wide_bits)), i + 1)

RECURSIVE to_int_loop(_, _, _)
to_int_loop(s, acc, i) ==
    IF i >= min(wide_bits \div word_bits, words) THEN acc
    ELSE to_int_loop(s, BitOr(acc, Shl(s[i], i * word_bits, wide_bits)), i + 1)

to_int(s) == to_int_loop(s, 0, 0)

\* the literal constructor without reverse_idx: character i sets bit i
RECURSIVE FromStringLoopForward(_, _, _)
FromStringLoopForward(s, str, i) ==
    IF i >= size THEN s
    ELSE FromStringLoopForward(bit_set(s, i, str[i + 1] # "0"), str, i + 1)

\* a literal is a sequence of characters; str[i] of the source is str[i + 1]
RECURSIVE FromStringLoop(_, _, _)
FromStringLoop(s, str, i) ==
    IF i >= size THEN s
    ELSE FromStringLoop(bit_set(s, reverse_idx(i, size), str[i + 1] # "0"),
                        str, i + 1)

\* BigUint(const char (&str)[chars]) with chars - 1 == bits_to_fit
FromString(str) == FromStringLoop(Zero, str, 0)

\* std::to_string(int bit)
std_to_string(bit) == IF bit THEN "1" ELSE "0"

RECURSIVE to_string_loop(_, _, _)
to_string_loop(s, str, i) ==
    IF i >= bits THEN str
    ELSE to_string_loop(
             s, Append(str, std_to_string(bit_get(s, reverse_idx(i, bits)))), i + 1)

\* to_string<false>()
to_string(s) == Append(to_string_loop(s, <<"[">>, 0), "]")

\* the literals of a width: one character per bit of bits_to_fit
Literals == [1 .. size -> {"0", "1"}]

\* ------------------------------------------------------ storage accesses
\* What a call touches: <<"word", idx>> for a call of word(idx), <<"bit", bit>>
\* for a call of bit_get, bit_set or bit_flip, <<"carry", idx>> for carry[idx].
\* Every operator below walks the loops of the function it is named after and
\* collects the index expressions the source evaluates.
\* bit_get / bit_set / bit_flip (bit): the bit itself, then word(bit / word_bits)
bit_accesses(bit) == {<<"bit", bit>>, <<"word", bit \div word_bits>>}

\* BigUint(wide_type number): word(i) for i < extent
FromWide_accesses ==
    {<<"word", i>> : i \in 0 .. min(wide_bits \div word_bits, words) - 1}

\* BigUint(literal): bit_set(reverse_idx(i, size), ...) for i < size
FromString_accesses ==
    UNION {bit_accesses(reverse_idx(i, size)) : i \in 0 .. size - 1}

\* significant_bits / significant_words: word(reverse_i) down to the first
\* nonzero word
significant_accesses(s) ==
    {<<"word", reverse_idx(i, words)>> :
        i \in {k \in 0 .. words - 1 :
                  \A j \in 0 .. k - 1 : s[reverse_idx(j, words)] = 0}}

\* operator==, operator<=, operator< : word(i) of both sides up to the word
\* at which the test of the loop ("!=", "<=" or "<") makes it return
compare_accesses(s, t, test) ==
    LET Decides(j) == CASE test = "!=" -> s[j] # t[j]
                        [] test = "<=" -> s[j] <= t[j]
                        [] test = "<" -> s[j] < t[j]
    IN  {<<"word", i>> :
            i \in {k \in 0 .. words - 1 : \A j \in 0 .. k - 1 : ~Decides(j)}}

bitwise_lshift_accesses(shift) ==
    IF shift = 0 \/ shift >= bits THEN {}
    ELSE LET wshift == shift \div word_bits
             offset == shift % word_bits
         IN  (IF offset = 0
              THEN UNION {{<<"word", i>>, <<"word", i - wshift>>} :
                             i \in wshift .. words - 1}
              ELSE UNION {{<<"word", i>>, <<"word", i - wshift>>,
                           <<"word", i - wshift - 1>>} :
                             i \in wshift + 1 .. words - 1}
                   \cup {<<"word", wshift>>, <<"word", 0>>})
             \cup {<<"word", i>> : i \in 0 .. wshift - 1}

\* the accesses of bitwise_rshift with limit == words - wshift
bitwise_rshift_accesses_limit_off_by_one(shift) ==
    IF shift = 0 \/ shift >= bits THEN {}
    ELSE LET wshift == shift \div word_bits
             offset == shift % word_bits
             limit  == words - wshift
         IN  (IF offset = 0
              THEN UNION {{<<"word", i>>, <<"word", i + wshift>>} :
                             i \in 0 .. limit}
              ELSE UNION {{<<"word", i>>, <<"word", i + wshift>>,
                           <<"word", i + wshift + 1>>} :
                             i \in 0 .. limit - 1}
                   \cup {<<"word", limit>>, <<"word", words - 1>>})
             \cup {<<"word", i>> : i \in limit + 1 .. words - 1}

bitwise_rshift_accesses(shift) ==
    IF shift = 0 \/ shift >= bits THEN {}
    ELSE LET wshift == shift \div word_bits
             offset == shift % word_bits
             limit  == words - wshift - 1
         IN  (IF offset = 0
              THEN UNION {{<<"word", i>>, <<"word", i + wshift>>} :
                             i \in 0 .. limit}
              ELSE UNION {{<<"word", i>>, <<"word", i + wshift>>,
                           <<"word", i + wshift + 1>>} :
                             i \in 0 .. limit - 1}
                   \cup {<<"word", limit>>, <<"word", words - 1>>})
             \cup {<<"word", i>> : i \in limit + 1 .. words - 1}

bitwise_flip_accesses == {<<"word", i>> : i \in 0 .. words - 1}

\* add: carry[i] and word(i) in every round, carry[i + 1] when the round
\* reaches the carry threshold; carry_in is what the round before left in
\* carry[i]
RECURSIVE add_accesses_loop(_, _, _, _)
add_accesses_loop(s, t, carry_in, i) ==
    IF i >= words THEN {}
    ELSE LET carry_i == (carry_in + s[i] + t[i]) % CarryMod
         IN  {<<"carry", i>>, <<"word", i>>}
             \cup (IF carry_i >= carry_threshold THEN {<<"carry", i + 1>>} ELSE {})
             \cup add_accesses_loop(
                      s, t, IF carry_i >= carry_threshold THEN 1 ELSE 0, i + 1)

add_accesses(s, t) == add_accesses_loop(s, t, 0, 0)

increment_accesses(s) ==
    {<<"word", 0>>}
    \cup (IF s[0] < carry_threshold - 2 THEN {}
          ELSE FromWide_accesses \cup add_accesses(s, FromWide(1)))

substract_accesses(s, t) ==
    bitwise_flip_accesses
    \cup increment_accesses(bitwise_flip(t))
    \cup add_accesses(s, increment(bitwise_flip(t)))

decrement_accesses(s) ==
    {<<"word", 0>>}
    \cup (IF s[0] > 0 THEN {}
          ELSE FromWide_accesses \cup substract_accesses(s, FromWide(1)))

short_multiply_accesses ==
    UNION {{<<"word", i>>, <<"carry", i>>, <<"carry", i + 1>>} :
              i \in 0 .. words - 1}

\* long_multiply: y.significant_words() before every round, then
\* y.word(digit), short_multiply, <<= digit * word_bits, res += sum_for_digit
RECURSIVE long_multiply_accesses_loop(_, _, _, _)
long_multiply_accesses_loop(s, t, acc, digit) ==
    IF digit >= significant_words(t) THEN significant_accesses(t)
    ELSE LET sum_for_digit ==
                 bitwise_lshift(short_multiply(s, t[digit]), digit * word_bits)
         IN  significant_accesses(t)
             \cup {<<"word", digit>>}
             \cup short_multiply_accesses
             \cup bitwise_lshift_accesses(digit * word_bits)
             \cup add_accesses(acc, sum_for_digit)
             \cup long_multiply_accesses_loop(s, t, add(acc, sum_for_digit), digit + 1)

long_multiply_accesses(s, t) == long_multiply_accesses_loop(s, t, Zero, 0)

multiply_accesses(s, t) ==
    LET x_sig_words == significant_words(s)
        y_sig_words == significant_words(t)
    IN  significant_accesses(s)
        \cup significant_accesses(t)
        \cup (IF x_sig_words >= y_sig_words
              THEN IF y_sig_words <= 1
                   THEN {<<"word", 0>>} \cup short_multiply_accesses
                   ELSE long_multiply_accesses(s, t)
              ELSE IF x_sig_words <= 1
                   THEN {<<"word", 0>>} \cup short_multiply_accesses
                   ELSE long_multiply_accesses(t, s))

short_divide_accesses ==
    {<<"word", reverse_idx(i, words)>> : i \in 0 .. words - 1}

\* long_divide: rem <<= 1, rem.bit_set(0, x.bit_get(...)), rem >= y and, when
\* it holds, rem -= y and quot.bit_set(...)
RECURSIVE long_divide_accesses_loop(_, _, _, _, _)
long_divide_accesses_loop(r, s, t, sig_bits, i) ==
    IF i >= sig_bits THEN {}
    ELSE LET r1 == bitwise_lshift(r, 1)
             r2 == bit_set(r1, 0, bit_get(s, reverse_idx(i, sig_bits)))
         IN  bitwise_lshift_accesses(1)
             \cup bit_accesses(reverse_idx(i, sig_bits))
             \cup bit_accesses(0)
             \cup compare_accesses(r2, t, "<")
             \cup (IF op_ge(r2, t)
                   THEN substract_accesses(r2, t)
                        \cup long_divide_accesses_loop(
                                 substract(r2, t), s, t, sig_bits, i + 1)
                   ELSE long_divide_accesses_loop(r2, s, t, sig_bits, i + 1))

long_divide_accesses(s, t) ==
    significant_accesses(s)
    \cup long_divide_accesses_loop(Zero, s, t, significant_bits(s), 0)

divide_accesses(s, t) ==
    LET x_sig_words == significant_words(s)
        y_sig_words == significant_words(t)
    IN  significant_accesses(s)
        \cup significant_accesses(t)
        \cup (IF x_sig_words <= 1 /\ y_sig_words <= 1 THEN {<<"word", 0>>}
              ELSE IF y_sig_words = 1 THEN {<<"word", 0>>} \cup short_divide_accesses
              ELSE long_divide_accesses(s, t))

\* to_int: word(i) for i < extent
to_int_accesses ==
    {<<"word", i>> : i \in 0 .. min(wide_bits \div word_bits, words) - 1}

\* to_string: bit_get(reverse_idx(i, bits)) for i < bits
to_string_accesses ==
    UNION {bit_accesses(reverse_idx(i, bits)) : i \in 0 .. bits - 1}

\* ------------------------------------------------------------ loop steps
\* The number of loop iterations a call runs through, nested calls included
\* (with the loop of the operator bool inside assert(y)).  A loop index is a
\* std::size_t, an unsigned integer of size_t_bits bits: stepping it down
\* from zero wraps to the largest value.  A loop that has run more than
\* StepBound iterations is given up on, and the count says so by exceeding
\* StepBound.
SizeMod == Pow2(size_t_bits)

\* a bound on the iterations of every operation, from the word count
StepBound == bits * (7 * words + 1) + 4 * words + word_bits

\* the offset == 0 loop of bitwise_lshift running down to index 0
RECURSIVE lshift_words_steps_down_to_zero(_, _, _)
lshift_words_steps_down_to_zero(wshift, i, n) ==
    IF n > StepBound THEN n
    ELSE IF i >= 0 THEN lshift_words_steps_down_to_zero(wshift, (i - 1) % SizeMod, n + 1)
    ELSE n

\* for (std::size_t i = self::words - 1; i >= wshift; --i)
RECURSIVE lshift_words_steps(_, _, _)
lshift_words_steps(wshift, i, n) ==
    IF n > StepBound THEN n
    ELSE IF i >= wshift THEN lshift_words_steps(wshift, (i - 1) % SizeMod, n + 1)
    ELSE n

\* for (std::size_t i = self::words - 1; i > wshift; --i)
RECURSIVE lshift_bits_steps(_, _, _)
lshift_bits_steps(wshift, i, n) ==
    IF n > StepBound THEN n
    ELSE IF i > wshift THEN lshift_bits_steps(wshift, (i - 1) % SizeMod, n + 1)
    ELSE n

\* bitwise_lshift: one of the two moving loops, then the zero-fill loop
bitwise_lshift_steps(shift) ==
    IF shift = 0 \/ shift >= bits THEN 0
    ELSE LET wshift == shift \div word_bits
             offset == shift % word_bits
         IN  (IF offset = 0 THEN lshift_words_steps(wshift, words - 1, 0)
              ELSE lshift_bits_steps(wshift, words - 1, 0))
             + wshift

\* bitwise_rshift: i from 0 up to limit (or limit - 1), then the zero-fill
\* loop from limit + 1 up to words - 1
bitwise_rshift_steps(shift) ==
    IF shift = 0 \/ shift >= bits THEN 0
    ELSE LET wshift == shift \div word_bits
             offset == shift % word_bits
             limit  == words - wshift - 1
         IN  (IF offset = 0 THEN limit + 1 ELSE limit) + (words - limit - 1)

\* increment: no loop, or self(1) and add
increment_steps(s) ==
    IF s[0] < carry_threshold - 2 THEN 0
    ELSE min(wide_bits \div word_bits, words) + words

\* substract(x, y): ~y, ++temp, add
substract_steps(t) == words + increment_steps(bitwise_flip(t)) + words

\* decrement: no loop, or self(1) and substract
decrement_steps(s) ==
    IF s[0] > 0 THEN 0
    ELSE min(wide_bits \div word_bits, words) + substract_steps(FromWide(1))

\* long_multiply: y.significant_words() before every round and after the
\* last; a round runs short_multiply, <<= and +=
RECURSIVE long_multiply_steps(_, _)
long_multiply_steps(t, digit) ==
    Cardinality(significant_accesses(t))
    + (IF digit >= significant_words(t) THEN 0
       ELSE 1 + words + bitwise_lshift_steps(digit * word_bits) + words
            + long_multiply_steps(t, digit + 1))

\* multiply: both significant_words(), then short_multiply or long_multiply
multiply_steps(s, t) ==
    LET x_sig_words == significant_words(s)
        y_sig_words == significant_words(t)
    IN  Cardinality(significant_accesses(s))
        + Cardinality(significant_accesses(t))
        + (IF x_sig_words >= y_sig_words
           THEN IF y_sig_words <= 1 THEN words ELSE long_multiply_steps(t, 0)
           ELSE IF x_sig_words <= 1 THEN words ELSE long_multiply_steps(s, 0))

\* the loop of long_divide: a round runs <<=, >= and, when it holds, -=
RECURSIVE long_divide_steps_loop(_, _, _, _, _)
long_divide_steps_loop(r, s, t, sig_bits, i) ==
    IF i >= sig_bits THEN 0
    ELSE LET r1 == bitwise_lshift(r, 1)
             r2 == bit_set(r1, 0, bit_get(s, reverse_idx(i, sig_bits)))
         IN  1 + bitwise_lshift_steps(1)
             + Cardinality(compare_accesses(r2, t, "<"))
             + (IF op_ge(r2, t)
                THEN substract_steps(t)
                     + long_divide_steps_loop(substract(r2, t), s, t, sig_bits, i + 1)
                ELSE long_divide_steps_loop(r2, s, t, sig_bits, i + 1))

\* divide: both significant_words(), then no loop, short_divide, or
\* long_divide with its assert(y), its significant_bits() and its loop
divide_steps(s, t) ==
    LET x_sig_words == significant_words(s)
        y_sig_words == significant_words(t)
    IN  Cardinality(significant_accesses(s))
        + Cardinality(significant_accesses(t))
        + (IF x_sig_words <= 1 /\ y_sig_words <= 1 THEN 0
           ELSE IF y_sig_words = 1 THEN words
           ELSE Cardinality(compare_accesses(t, Zero, "!="))
                + Cardinality(significant_accesses(s))
                + (IF to_bool(s) THEN bit_width(s[significant_words(s) - 1]) ELSE 0)
                + long_divide_steps_loop(Zero, s, t, significant_bits(s), 0))

\* ------------------------------------------- native integers (bit.hpp)
\* The bit:: functions are templates over an integer type T.  T ranges over
\* the two 8-bit types of the tests; a value of T is the integer it denotes.
\* An operand narrower than int is promoted to int before <<, >>, |, &, ^ and
\* ~ are applied, so a shift by up to the width of T is a defined shift of an
\* int, and the conversion back to T keeps the low size_of<T> bits.
byte_size == 8

NativeTypes == {"uint8_t", "int8_t"}

\* the types the math:: functions are instantiated with: as wide as int, so
\* their operands are not promoted and signed arithmetic can overflow
MathTypes == {"unsigned", "int"}

\* the narrower types a cast converts to
ShortTypes == {"unsigned short", "short"}

is_signed(t) == t \in {"int8_t", "int", "short"}

\* size_of<T> == sizeof(T) * byte_size, with sizeof(T) == 1 for the 8-bit types
size_of(t) ==
    IF t \in MathTypes THEN int_bits
    ELSE IF t \in ShortTypes THEN short_bits
    ELSE byte_size

\* std::numeric_limits<T>::digits: the value bits, the sign bit not counted
digits(t) == IF is_signed(t) THEN size_of(t) - 1 ELSE size_of(t)

\* std::numeric_limits<T>::min() and max()
numeric_min(t) == IF is_signed(t) THEN 0 - Pow2(size_of(t) - 1) ELSE 0

numeric_max(t) == IF is_signed(t) THEN Pow2(size_of(t) - 1) - 1 ELSE Pow2(size_of(t)) - 1

NativeValues(t) == numeric_min(t) .. numeric_max(t)

\* static_cast<std::make_unsigned_t<T>>(value): the bit pattern of value
make_unsigned(t, value) == value % Pow2(size_of(t))

\* static_cast<T>(n): the value of T with the low size_of<T> bits of n
static_cast(t, n) ==
    LET u == n % Pow2(size_of(t))
    IN  IF is_signed(t) /\ u >= Pow2(size_of(t) - 1) THEN u - Pow2(size_of(t)) ELSE u

\* Each function gives the value it returns and whether an assertion on the
\* way failed.
\* bit::lshift
utl_bit_lshift(t, value, shift) ==
    [v      |-> static_cast(t, make_unsigned(t, value) * Pow2(shift)),
     failed |-> ~(shift < size_of(t))]

\* bit::rshift
utl_bit_rshift(t, value, shift) ==
    [v      |-> static_cast(t, make_unsigned(t, value) \div Pow2(shift)),
     failed |-> ~(shift < size_of(t))]

\* rotl that only shifts: the bits shifted out are dropped
utl_bit_rotl_no_wrap(t, value, shift) ==
    LET l == utl_bit_lshift(t, value, shift)
    IN  [v |-> l.v, failed |-> ~(shift < size_of(t)) \/ l.failed]

\* bit::rotl: lshift(value, shift) | rshift(value, digits - shift)
utl_bit_rotl(t, value, shift) ==
    LET l == utl_bit_lshift(t, value, shift)
        r == utl_bit_rshift(t, value, digits(t) - shift)
    IN  [v      |-> static_cast(t, BitOr(make_unsigned(t, l.v), make_unsigned(t, r.v))),
         failed |-> ~(shift < size_of(t)) \/ l.failed \/ r.failed]

\* bit::rotr: lshift(value, digits - shift) | rshift(value, shift)
utl_bit_rotr(t, value, shift) ==
    LET l == utl_bit_lshift(t, value, digits(t) - shift)
        r == utl_bit_rshift(t, value, shift)
    IN  [v      |-> static_cast(t, BitOr(make_unsigned(t, l.v), make_unsigned(t, r.v))),
         failed |-> ~(shift < size_of(t)) \/ l.failed \/ r.failed]

\* bit::get: rshift(value, bit) & T(1), returned as bool
utl_bit_get(t, value, bit) ==
    LET r == utl_bit_rshift(t, value, bit)
    IN  [v      |-> BitAnd(make_unsigned(t, r.v), 1) # 0,
         failed |-> ~(bit < size_of(t)) \/ r.failed]

\* bit::set: value | lshift(T(1), bit)
utl_bit_set(t, value, bit) ==
    LET l == utl_bit_lshift(t, 1, bit)
    IN  [v      |-> static_cast(t, BitOr(make_unsigned(t, value), make_unsigned(t, l.v))),
         failed |-> ~(bit < size_of(t)) \/ l.failed]

\* clear with the ~ left out: value & lshift(T(1), bit)
utl_bit_clear_no_complement(t, value, bit) ==
    LET l == utl_bit_lshift(t, 1, bit)
    IN  [v      |-> static_cast(t, BitAnd(make_unsigned(t, value), make_unsigned(t, l.v))),
         failed |-> ~(bit < size_of(t)) \/ l.failed]

\* bit::clear: value & ~lshift(T(1), bit)
utl_bit_clear(t, value, bit) ==
    LET l == utl_bit_lshift(t, 1, bit)
    IN  [v      |-> static_cast(t, BitAnd(make_unsigned(t, value),
                                          Pow2(size_of(t)) - 1 - make_unsigned(t, l.v))),
         failed |-> ~(bit < size_of(t)) \/ l.failed]

\* bit::flip: value ^ lshift(T(1), bit)
utl_bit_flip(t, value, bit) ==
    LET l == utl_bit_lshift(t, 1, bit)
    IN  [v      |-> static_cast(t, BitXor(make_unsigned(t, value), make_unsigned(t, l.v))),
         failed |-> ~(bit < size_of(t)) \/ l.failed]

\* bits::rotl of integral.hpp on an unsigned T:
\* (value << shift) | (value >> (digits - shift)), computed in int
bits_rotl(t, value, shift) ==
    [v      |-> static_cast(t, BitOr(value * Pow2(shift),
                                     value \div Pow2(digits(t) - shift))),
     failed |-> ~(shift < size_of(t))]

\* bits::rotr of integral.hpp on an unsigned T:
\* (value << (digits - shift)) | (value >> shift), computed in int
bits_rotr(t, value, shift) ==
    [v      |-> static_cast(t, BitOr(value * Pow2(digits(t) - shift),
                                     value \div Pow2(shift))),
     failed |-> ~(shift < size_of(t))]

\* ------------------------------------------- bit::Flags<E> (bit.hpp)
\* The built-in &, | and ~ on int, two's complement: -1 is all ones, and
\* floor division by 2 is the arithmetic shift.
RECURSIVE IntAnd(_, _)
IntAnd(a, b) ==
    IF a = 0 \/ b = 0 THEN 0
    ELSE IF a = 0 - 1 THEN b
    ELSE IF b = 0 - 1 THEN a
    ELSE (a % 2) * (b % 2) + 2 * IntAnd(a \div 2, b \div 2)

RECURSIVE IntOr(_, _)
IntOr(a, b) ==
    IF a = 0 THEN b
    ELSE IF b = 0 THEN a
    ELSE IF a = 0 - 1 \/ b = 0 - 1 THEN 0 - 1
    ELSE (IF a % 2 = 1 \/ b % 2 = 1 THEN 1 ELSE 0) + 2 * IntOr(a \div 2, b \div 2)

IntNot(a) == 0 - a - 1

\* the enumerators of E: 1 << 0, 1 << 1, ...
Enumerators == {Pow2(i) : i \in 0 .. NumFlags - 1}

\* to_underlying(E value): an enumerator is held as its underlying value
to_underlying(value) == value

\* bit::to_bool(T value)
utl_bit_to_bool(value) == value # 0

\* Flags::contains(E flag)
flags_contains(d, flag) == utl_bit_to_bool(IntAnd(d, to_underlying(flag)))

\* Flags::add(E flag) and add(Flags other): data |= v
flags_add(d, v) == IntOr(d, v)

\* remove written with ^= : data ^= v
flags_remove_xor(d, v) == BitXor(d, v)

\* Flags::remove(E flag) and remove(Flags other): data &= ~v
flags_remove(d, v) == IntAnd(d, IntNot(v))

\* Flags(std::initializer_list<E> flag_list): add(flag) for each flag
RECURSIVE FlagsOf(_)
FlagsOf(flag_list) ==
    IF flag_list = {} THEN 0
    ELSE LET flag == CHOOSE f \in flag_list : TRUE
         IN  flags_add(FlagsOf(flag_list \ {flag}), to_underlying(flag))

\* ------------------------------------- math:: on int and unsigned
\* a built-in dividend / divisor whose behaviour is undefined: a zero divisor,
\* or min / -1 in a signed type
division_undefined(t, dividend, divisor) ==
    \/ divisor = 0
    \/ is_signed(t) /\ dividend = numeric_min(t) /\ divisor = 0 - 1

\* The divisions mul_overflows evaluates, as <<dividend, divisor>>, in the
\* order of its four tests; && evaluates the division only when both sign
\* tests before it hold, and a test that holds returns.
mul_overflows_divisions(t, lhs, rhs) ==
    LET min_value == numeric_min(t)
        max_value == numeric_max(t)
        test1 == lhs < 0 /\ rhs < 0
        test2 == lhs < 0 /\ rhs > 0
        test3 == lhs > 0 /\ rhs < 0
        test4 == lhs > 0 /\ rhs > 0
    IN  (IF test1 THEN {<<max_value, lhs>>} ELSE {})
        \cup (IF test2 THEN {<<min_value, rhs>>} ELSE {})
        \cup (IF test3 THEN {<<min_value, lhs>>} ELSE {})
        \cup (IF test4 THEN {<<max_value, rhs>>} ELSE {})

\* mul_overflows whose first test divides min instead of max
mul_overflows_min_first(t, lhs, rhs) ==
    LET min_value == numeric_min(t)
        max_value == numeric_max(t)
    IN  IF lhs < 0 /\ rhs < 0 /\ rhs < native_div(min_value, lhs) THEN TRUE
        ELSE IF lhs < 0 /\ rhs > 0 /\ lhs < native_div(min_value, rhs) THEN TRUE
        ELSE IF lhs > 0 /\ rhs < 0 /\ rhs < native_div(min_value, lhs) THEN TRUE
        ELSE IF lhs > 0 /\ rhs > 0 /\ lhs > native_div(max_value, rhs) THEN TRUE
        ELSE FALSE

\* math::mul_overflows
mul_overflows(t, lhs, rhs) ==
    LET min_value == numeric_min(t)
        max_value == numeric_max(t)
    IN  IF lhs < 0 /\ rhs < 0 /\ rhs < native_div(max_value, lhs) THEN TRUE
        ELSE IF lhs < 0 /\ rhs > 0 /\ lhs < native_div(min_value, rhs) THEN TRUE
        ELSE IF lhs > 0 /\ rhs < 0 /\ rhs < native_div(min_value, lhs) THEN TRUE
        ELSE IF lhs > 0 /\ rhs > 0 /\ lhs > native_div(max_value, rhs) THEN TRUE
        ELSE FALSE

\* a signed arithmetic result outside the type: the behaviour is undefined
\* (an unsigned result wraps, which static_cast computes)
signed_overflow(t, n) == is_signed(t) /\ n \notin NativeValues(t)

\* math::add_overflows: false from either bound test, true after both
add_overflows(t, lhs, rhs) ==
    LET above == numeric_max(t) - rhs
        below == numeric_min(t) - rhs
        above_max == rhs > 0 /\ lhs > static_cast(t, above)
        below_min == rhs < 0 /\ lhs < static_cast(t, below)
    IN  [v  |-> IF above_max THEN FALSE
                ELSE IF below_min THEN FALSE
                ELSE TRUE,
         ub |-> \/ rhs > 0 /\ signed_overflow(t, above)
                \/ ~above_max /\ rhs < 0 /\ signed_overflow(t, below)]

\* math::sub_overflows: false from either bound test, true after both
sub_overflows(t, lhs, rhs) ==
    LET above == numeric_max(t) + rhs
        below == numeric_min(t) + rhs
        above_max == rhs < 0 /\ lhs > static_cast(t, above)
        below_min == rhs > 0 /\ lhs < static_cast(t, below)
    IN  [v  |-> IF above_max THEN FALSE
                ELSE IF below_min THEN FALSE
                ELSE TRUE,
         ub |-> \/ rhs < 0 /\ signed_overflow(t, above)
                \/ ~above_max /\ rhs > 0 /\ signed_overflow(t, below)]

\* Each saturated function gives the value it returns and whether an
\* expression it evaluated has undefined behaviour.
\* add_sat that adds without testing the bounds
add_sat_wrapping(t, lhs, rhs) ==
    [v |-> static_cast(t, lhs + rhs), ub |-> FALSE]

\* math::add_sat
add_sat(t, lhs, rhs) ==
    LET above == numeric_max(t) - rhs
        below == numeric_min(t) - rhs
        above_max == rhs > 0 /\ lhs > static_cast(t, above)
        below_min == rhs < 0 /\ lhs < static_cast(t, below)
    IN  [v  |-> IF above_max THEN numeric_max(t)
                ELSE IF below_min THEN numeric_min(t)
                ELSE static_cast(t, lhs + rhs),
         ub |-> \/ rhs > 0 /\ signed_overflow(t, above)
                \/ ~above_max /\ rhs < 0 /\ signed_overflow(t, below)
                \/ ~above_max /\ ~below_min /\ signed_overflow(t, lhs + rhs)]

\* math::sub_sat
sub_sat(t, lhs, rhs) ==
    LET above == numeric_max(t) + rhs
        below == numeric_min(t) + rhs
        above_max == rhs < 0 /\ lhs > static_cast(t, above)
        below_min == rhs > 0 /\ lhs < static_cast(t, below)
    IN  [v  |-> IF above_max THEN numeric_max(t)
                ELSE IF below_min THEN numeric_min(t)
                ELSE static_cast(t, lhs - rhs),
         ub |-> \/ rhs < 0 /\ signed_overflow(t, above)
                \/ ~above_max /\ rhs > 0 /\ signed_overflow(t, below)
                \/ ~above_max /\ ~below_min /\ signed_overflow(t, lhs - rhs)]

\* math::mul_sat: the four tests of mul_overflows, then lhs * rhs
mul_sat(t, lhs, rhs) ==
    LET min_value == numeric_min(t)
        max_value == numeric_max(t)
        divided == \E d \in mul_overflows_divisions(t, lhs, rhs) :
                       division_undefined(t, d[1], d[2])
    IN  IF divided THEN [v |-> 0, ub |-> TRUE]
        ELSE IF lhs < 0 /\ rhs < 0 /\ rhs < native_div(max_value, lhs)
        THEN [v |-> max_value, ub |-> FALSE]
        ELSE IF lhs < 0 /\ rhs > 0 /\ lhs < native_div(min_value, rhs)
        THEN [v |-> min_value, ub |-> FALSE]
        ELSE IF lhs > 0 /\ rhs < 0 /\ rhs < native_div(min_value, lhs)
        THEN [v |-> min_value, ub |-> FALSE]
        ELSE IF lhs > 0 /\ rhs > 0 /\ lhs > native_div(max_value, rhs)
        THEN [v |-> max_value, ub |-> FALSE]
        ELSE [v |-> static_cast(t, lhs * rhs), ub |-> signed_overflow(t, lhs * rhs)]

\* math::div_sat, after its assert(rhs != T(0))
div_sat(t, lhs, rhs) ==
    IF is_signed(t) /\ lhs = numeric_min(t) /\ rhs = 0 - 1
    THEN [v |-> numeric_max(t), ub |-> FALSE]
    ELSE IF rhs = 0 THEN [v |-> 0, ub |-> TRUE]
    ELSE [v |-> native_div(lhs, rhs), ub |-> FALSE]

\* math::cmp_less(lhs, rhs) with lhs of type t1 and rhs of type t2
cmp_less(t1, lhs, t2, rhs) ==
    IF is_signed(t1) = is_signed(t2) THEN lhs < rhs
    ELSE IF is_signed(t1) THEN lhs < 0 \/ make_unsigned(t1, lhs) < rhs
    ELSE rhs >= 0 /\ lhs < make_unsigned(t2, rhs)

\* math::in_range<To>(value): cmp_greater_equal(value, min) is
\* !cmp_less(value, min), cmp_less_equal(value, max) is !cmp_less(max, value)
in_range(to, from, value) ==
    /\ ~cmp_less(from, value, to, numeric_min(to))
    /\ ~cmp_less(to, numeric_max(to), from, value)

\* math::saturate_cast<To>(value) with value of type from.  The block
\* commented 'unsigned -> signed' is compiled under the condition of the
\* 'signed -> unsigned' block, so it runs after that block for a signed
\* From and an unsigned To, and no block runs for an unsigned From.
saturate_cast(to, from, value) ==
    LET to_min == numeric_min(to)
        to_max == numeric_max(to)
    IN  IF is_signed(from) /\ is_signed(to) /\ digits(to) < digits(from)
           /\ value < static_cast(from, to_min)
        THEN to_min
        ELSE IF is_signed(from) /\ is_signed(to) /\ digits(to) < digits(from)
                /\ value > static_cast(from, to_max)
        THEN to_max
        ELSE IF is_signed(from) /\ ~is_signed(to) /\ value < static_cast(from, to_min)
        THEN to_min
        ELSE IF is_signed(from) /\ ~is_signed(to) /\ make_unsigned(from, value) > to_max
        THEN to_max
        ELSE IF is_signed(from) /\ ~is_signed(to) /\ value > make_unsigned(to, to_max)
        THEN to_max
        ELSE static_cast(to, value)

\* --------------------------------------------------------- state machine
\* no native operand and no Flags object: the BigUint calls leave them alone
NoNative ==
    /\ T = "none"
    /\ n1 = 0
    /\ n2 = 0
    /\ data = 0
    /\ last = <<>>

\* Init draws the instantiation and both operands; every action applies one
\* operation of the interface to the operands and records what it returned.
Init ==
    /\ bits_to_fit \in 1 .. MaxBits
    /\ x \in BigUintValues
    /\ y \in BigUintValues
    /\ op = "init"
    /\ arg = 0
    /\ res = Zero
    /\ quot = Zero
    /\ rem = Zero
    /\ ret = 0
    /\ fault = "none"
    /\ touched = {}
    /\ steps = 0
    /\ NoNative

\* the operands of a unary operation: y stays default-constructed
InitUnary ==
    /\ bits_to_fit \in 1 .. MaxBits
    /\ x \in BigUintValues
    /\ y = Zero
    /\ op = "init"
    /\ arg = 0
    /\ res = Zero
    /\ quot = Zero
    /\ rem = Zero
    /\ ret = 0
    /\ fault = "none"
    /\ touched = {}
    /\ steps = 0
    /\ NoNative

\* the conversions start from a default-constructed value
InitConv ==
    /\ bits_to_fit \in 1 .. MaxBits
    /\ x = Zero
    /\ y = Zero
    /\ op = "init"
    /\ arg = 0
    /\ res = Zero
    /\ quot = Zero
    /\ rem = Zero
    /\ ret = 0
    /\ fault = "none"
    /\ touched = {}
    /\ steps = 0
    /\ NoNative

\* the storage accesses of the call of operation o with scalar argument a on
\* the operands x and y
accesses(o, a) ==
    CASE o = "add" -> add_accesses(x, y)
      [] o = "sub" -> substract_accesses(x, y)
      [] o = "mul" -> multiply_accesses(x, y)
      [] o = "compare" -> compare_accesses(x, y, "!=")
                              \cup compare_accesses(x, y, "<=")
                              \cup compare_accesses(x, y, "<")
      [] o = "increment" -> increment_accesses(x)
      [] o = "decrement" -> decrement_accesses(x)
      [] o = "lshift" -> bitwise_lshift_accesses(a)
      [] o = "rshift" -> bitwise_rshift_accesses(a)
      [] o = "bit_set" -> bit_accesses(a)
      [] o = "bit_flip" -> bit_accesses(a)
      [] o = "significant_bits" -> significant_accesses(x)
      [] o = "from_wide" -> FromWide_accesses \cup to_int_accesses
      [] o = "from_string" -> FromString_accesses \cup to_string_accesses

\* the loop iterations of the call of operation o with scalar argument a on
\* the operands x and y
loop_steps(o, a) ==
    CASE o = "add" -> words
      [] o = "sub" -> substract_steps(y)
      [] o = "mul" -> multiply_steps(x, y)
      [] o = "compare" -> Cardinality(compare_accesses(x, y, "!="))
                              + Cardinality(compare_accesses(x, y, "<="))
                              + Cardinality(compare_accesses(x, y, "<"))
      [] o = "increment" -> increment_steps(x)
      [] o = "decrement" -> decrement_steps(x)
      [] o = "lshift" -> bitwise_lshift_steps(a)
      [] o = "rshift" -> bitwise_rshift_steps(a)
      [] o = "bit_set" -> 0
      [] o = "bit_flip" -> 0
      [] o = "significant_bits" ->
             Cardinality(significant_accesses(x))
                 + (IF to_bool(x) THEN bit_width(x[significant_words(x) - 1]) ELSE 0)
      [] o = "from_wide" -> 2 * min(wide_bits \div word_bits, words)
      [] o = "from_string" -> size + bits

\* what one call leaves behind: the operation, its scalar argument, the
\* BigUint it returned, the scalar it returned, the storage it touched.
\* Every operator is applied to a copy and leaves its operands as they were,
\* so a call made after another call returns what it returns when made
\* first: a behaviour makes one call on the operands drawn.
Returns(o, a, r, v) ==
    /\ op = "init"
    /\ op' = o
    /\ arg' = a
    /\ res' = r
    /\ ret' = v
    /\ quot' = Zero
    /\ rem' = Zero
    /\ fault' = "none"
    /\ touched' = accesses(o, a)
    /\ steps' = loop_steps(o, a)
    /\ UNCHANGED <<bits_to_fit, x, y>>
    /\ UNCHANGED native

\* operator+ : self(*this) += other
Add == Returns("add", 0, add(x, y), 0)

\* operator- : self(*this) -= other
Sub == Returns("sub", 0, substract(x, y), 0)

\* operator* : self(*this) *= other
Mul == Returns("mul", 0, multiply(x, y), 0)

\* operator/ and operator% : self q{}, r{}; divide(q, r, *this, other).
\* A zero divisor with a dividend of at most one significant word reaches the
\* native x.word(0) / y.word(0), whose behaviour is undefined: the build may
\* stop or leave any word in q and r.  Any other zero divisor reaches
\* long_divide and its assert(y): the assertion stops the program, and a
\* build with NDEBUG has no assertion and runs the loop of long_divide.
Div ==
    /\ op = "init"
    /\ op' = "div"
    /\ IF to_bool(y)
       THEN LET qr == divide(FreshQR, x, y)
            IN  /\ quot' = qr.quot
                /\ rem' = qr.rem
                /\ fault' = "none"
                /\ touched' = divide_accesses(x, y)
                /\ steps' = divide_steps(x, y)
       ELSE IF significant_words(x) <= 1
       THEN /\ \E q0, r0 \in Word :
                  /\ quot' = [Zero EXCEPT ![0] = q0]
                  /\ rem' = [Zero EXCEPT ![0] = r0]
            /\ fault' = "native_division_by_zero"
            /\ touched' = significant_accesses(x) \cup significant_accesses(y)
                              \cup {<<"word", 0>>}
            /\ steps' = divide_steps(x, y)
       ELSE \/ /\ quot' = Zero
               /\ rem' = Zero
               /\ fault' = "assert_divisor_nonzero"
               /\ touched' = significant_accesses(x) \cup significant_accesses(y)
               /\ steps' = Cardinality(significant_accesses(x))
                               + Cardinality(significant_accesses(y)) + words
            \/ LET qr == divide(FreshQR, x, y)
               IN  /\ quot' = qr.quot
                   /\ rem' = qr.rem
                   /\ fault' = "assert_compiled_out"
                   /\ touched' = divide_accesses(x, y)
                   /\ steps' = divide_steps(x, y)
    /\ arg' = 0
    /\ res' = Zero
    /\ ret' = 0
    /\ UNCHANGED <<bits_to_fit, x, y>>
    /\ UNCHANGED native

\* the comparison operators, returned together
Compare ==
    Returns("compare", 0, Zero,
            [eq |-> op_eq(x, y), le |-> op_le(x, y), lt |-> op_lt(x, y),
             ge |-> op_ge(x, y), gt |-> op_gt(x, y)])

\* operator<< with a shift amount up to and beyond the total width
LShift ==
    \E shift \in 0 .. bits + 1 :
        Returns("lshift", shift, bitwise_lshift(x, shift), 0)

\* operator>>
RShift ==
    \E shift \in 0 .. bits + 1 :
        Returns("rshift", shift, bitwise_rshift(x, shift), 0)

\* bit_set(bit, value) on a copy of x, then bit_get(bit) on the copy
BitSet ==
    \E bit \in 0 .. bits - 1, value \in BOOLEAN :
        LET after == bit_set(x, bit, value)
        IN  Returns("bit_set", bit, after, [value |-> value, get |-> bit_get(after, bit)])

\* bit_flip(bit) on a copy of x, then bit_get(bit) on the copy
BitFlip ==
    \E bit \in 0 .. bits - 1 :
        LET after == bit_flip(x, bit)
        IN  Returns("bit_flip", bit, after, bit_get(after, bit))

\* operator++ on a copy of x; ret tells which branch of increment ran
Increment ==
    Returns("increment", 0, increment(x),
            IF x[0] < carry_threshold - 2 THEN "fast" ELSE "add")

\* operator-- on a copy of x; ret tells which branch of decrement ran
Decrement ==
    Returns("decrement", 0, decrement(x),
            IF x[0] > 0 THEN "fast" ELSE "substract")

\* significant_bits()
SignificantBits == Returns("significant_bits", 0, Zero, significant_bits(x))

\* BigUint(wide_type number), then to_int() on the value built
Construct ==
    \E number \in 0 .. WideMod - 1 :
        LET built == FromWide(number)
        IN  Returns("from_wide", number, built, to_int(built))

\* BigUint(literal), then to_string<false>() on the value built
Literal ==
    \E str \in Literals :
        LET built == FromString(str)
        IN  Returns("from_string", str, built, to_string(built))

Next ==
    \/ Add
    \/ Sub
    \/ Mul
    \/ Div
    \/ Compare

Spec == Init /\ [][Next]_vars

NextUnary ==
    \/ LShift
    \/ RShift
    \/ BitSet
    \/ BitFlip
    \/ SignificantBits
    \/ Increment
    \/ Decrement

SpecUnary == InitUnary /\ [][NextUnary]_vars

NextConv ==
    \/ Construct
    \/ Literal

SpecConv == InitConv /\ [][NextConv]_vars

\* Every BigUint call in one specification.  A unary call reads no second
\* operand and a constructor reads no operand at all, so they are taken where
\* the operands they do not read are still default-constructed.
NextAll ==
    \/ Next
    \/ y = Zero /\ NextUnary
    \/ x = Zero /\ y = Zero /\ NextConv

SpecAll == Init /\ [][NextAll]_vars

\* ------------------------------------------- bit:: calls (bit.hpp)
\* no BigUint operand: the native calls leave the BigUint variables alone
NoBigUint ==
    /\ bits_to_fit = 1
    /\ x = Zero
    /\ y = Zero
    /\ res = Zero
    /\ quot = Zero
    /\ rem = Zero
    /\ touched = {}
    /\ steps = 0

biguint == <<bits_to_fit, x, y, res, quot, rem, touched, steps>>

\* one integer type T and one value of it
InitBit ==
    /\ T \in NativeTypes
    /\ n1 \in NativeValues(T)
    /\ n2 = 0
    /\ data = 0
    /\ last = <<>>
    /\ op = "init"
    /\ arg = 0
    /\ ret = 0
    /\ fault = "none"
    /\ NoBigUint

\* What a native call leaves behind.  A failed assertion stops the program; a
\* build with NDEBUG has no assertion and returns what the expression gives.
NativeReturns(o, a, r) ==
    /\ op' = o
    /\ arg' = a
    /\ IF ~r.failed
       THEN /\ ret' = r.v
            /\ fault' = "none"
       ELSE \/ /\ ret' = 0
               /\ fault' = "assertion_failed"
            \/ /\ ret' = r.v
               /\ fault' = "assert_compiled_out"
    /\ UNCHANGED <<T, n1, n2, data, last>>
    /\ UNCHANGED biguint

\* the shift amounts and bit positions the assertion of the called function
\* itself admits
Positions == 0 .. size_of(T) - 1

BitLShift == \E shift \in Positions : NativeReturns("bit_lshift", shift, utl_bit_lshift(T, n1, shift))

BitRShift == \E shift \in Positions : NativeReturns("bit_rshift", shift, utl_bit_rshift(T, n1, shift))

BitRotl == \E shift \in Positions : NativeReturns("bit_rotl", shift, utl_bit_rotl(T, n1, shift))

BitRotr == \E shift \in Positions : NativeReturns("bit_rotr", shift, utl_bit_rotr(T, n1, shift))

BitGet == \E bit \in Positions : NativeReturns("bit_get", bit, utl_bit_get(T, n1, bit))

BitSetNative == \E bit \in Positions : NativeReturns("bit_set_native", bit, utl_bit_set(T, n1, bit))

BitClear == \E bit \in Positions : NativeReturns("bit_clear", bit, utl_bit_clear(T, n1, bit))

BitFlipNative == \E bit \in Positions : NativeReturns("bit_flip_native", bit, utl_bit_flip(T, n1, bit))

\* bits::rotl and bits::rotr of integral.hpp, on the unsigned type
BitsRotl ==
    /\ ~is_signed(T)
    /\ \E shift \in Positions : NativeReturns("bits_rotl", shift, bits_rotl(T, n1, shift))

BitsRotr ==
    /\ ~is_signed(T)
    /\ \E shift \in Positions : NativeReturns("bits_rotr", shift, bits_rotr(T, n1, shift))

NextBit ==
    \/ BitLShift
    \/ BitRShift
    \/ BitRotl
    \/ BitRotr
    \/ BitGet
    \/ BitSetNative
    \/ BitClear
    \/ BitFlipNative
    \/ BitsRotl
    \/ BitsRotr

SpecBit == InitBit /\ [][NextBit]_vars

\* ------------------------------------------- bit::Flags<E> calls
\* Flags<E>{}: an empty Flags; last[f] is the last call that named f
InitFlags ==
    /\ data = 0
    /\ last = [f \in Enumerators |-> "none"]
    /\ T = "none"
    /\ n1 = 0
    /\ n2 = 0
    /\ op = "init"
    /\ arg = {}
    /\ ret = FALSE
    /\ fault = "none"
    /\ NoBigUint

\* what a Flags call leaves behind: arg is the set of flags the call named
FlagsReturns(o, named, d, v) ==
    /\ op' = o
    /\ arg' = named
    /\ data' = d
    /\ ret' = v
    /\ fault' = "none"
    /\ UNCHANGED <<T, n1, n2>>
    /\ UNCHANGED biguint

\* flags.add(flag)
FlagsAdd ==
    \E flag \in Enumerators :
        /\ FlagsReturns("flags_add", {flag}, flags_add(data, to_underlying(flag)), FALSE)
        /\ last' = [last EXCEPT ![flag] = "add"]

\* flags.add(Flags{...})
FlagsAddFlags ==
    \E flag_list \in SUBSET Enumerators :
        /\ FlagsReturns("flags_add_flags", flag_list, flags_add(data, FlagsOf(flag_list)), FALSE)
        /\ last' = [f \in Enumerators |-> IF f \in flag_list THEN "add" ELSE last[f]]

\* flags.remove(flag)
FlagsRemove ==
    \E flag \in Enumerators :
        /\ FlagsReturns("flags_remove", {flag}, flags_remove(data, to_underlying(flag)), FALSE)
        /\ last' = [last EXCEPT ![flag] = "remove"]

\* flags.remove(Flags{...})
FlagsRemoveFlags ==
    \E flag_list \in SUBSET Enumerators :
        /\ FlagsReturns("flags_remove_flags", flag_list,
                        flags_remove(data, FlagsOf(flag_list)), FALSE)
        /\ last' = [f \in Enumerators |-> IF f \in flag_list THEN "remove" ELSE last[f]]

\* flags.contains(flag): a query, it names no flag for add or remove
FlagsContains ==
    \E flag \in Enumerators :
        /\ FlagsReturns("flags_contains", {}, data, flags_contains(data, flag))
        /\ UNCHANGED last

NextFlags ==
    \/ FlagsAdd
    \/ FlagsAddFlags
    \/ FlagsRemove
    \/ FlagsRemoveFlags
    \/ FlagsContains

SpecFlags == InitFlags /\ [][NextFlags]_vars

\* ------------------------------------- math:: calls (integral.hpp)
\* one integer type T and two values of it
InitMath ==
    /\ T \in MathTypes
    /\ n1 \in NativeValues(T)
    /\ n2 \in NativeValues(T)
    /\ data = 0
    /\ last = <<>>
    /\ op = "init"
    /\ arg = 0
    /\ ret = 0
    /\ fault = "none"
    /\ NoBigUint

\* What a rounding division leaves behind.  A zero divisor fails
\* assert(divisor != T(0)), and with NDEBUG reaches the built-in division by
\* zero; min / -1 overflows the built-in division.  Where the behaviour is
\* undefined the call may return any value of T.
DivisionReturns(o, v) ==
    /\ op' = o
    /\ arg' = 0
    /\ IF n2 = 0
       THEN \/ /\ ret' = 0
               /\ fault' = "assertion_failed"
            \/ /\ ret' \in NativeValues(T)
               /\ fault' = "undefined_behaviour"
       ELSE IF division_undefined(T, n1, n2)
       THEN /\ ret' \in NativeValues(T)
            /\ fault' = "undefined_behaviour"
       ELSE /\ ret' = static_cast(T, v)
            /\ fault' = "none"
    /\ UNCHANGED <<T, n1, n2, data, last>>
    /\ UNCHANGED biguint

\* math::div_floor(n1, n2)
DivFloor == DivisionReturns("div_floor", div_floor(n1, n2))

\* math::div_ceil(n1, n2)
DivCeil == DivisionReturns("div_ceil", div_ceil(n1, n2))

\* math::mul_overflows(n1, n2): arg holds the divisions it evaluated
MulOverflows ==
    /\ op' = "mul_overflows"
    /\ arg' = mul_overflows_divisions(T, n1, n2)
    /\ IF \E d \in mul_overflows_divisions(T, n1, n2) : division_undefined(T, d[1], d[2])
       THEN /\ ret' \in BOOLEAN
            /\ fault' = "undefined_behaviour"
       ELSE /\ ret' = mul_overflows(T, n1, n2)
            /\ fault' = "none"
    /\ UNCHANGED <<T, n1, n2, data, last>>
    /\ UNCHANGED biguint

\* What a math:: call leaves behind: a failed assertion stops a debug build,
\* and a build with NDEBUG goes on; where the behaviour is undefined the call
\* may return any value of T.
MathReturns(o, failed, r) ==
    /\ op' = o
    /\ arg' = 0
    /\ \/ /\ failed
          /\ ret' = 0
          /\ fault' = "assertion_failed"
       \/ /\ r.ub
          /\ ret' \in NativeValues(T)
          /\ fault' = "undefined_behaviour"
       \/ /\ ~failed
          /\ ~r.ub
          /\ ret' = r.v
          /\ fault' = "none"
    /\ UNCHANGED <<T, n1, n2, data, last>>
    /\ UNCHANGED biguint

\* math::add_sat(n1, n2)
AddSat == MathReturns("add_sat", FALSE, add_sat(T, n1, n2))

\* math::sub_sat(n1, n2)
SubSat == MathReturns("sub_sat", FALSE, sub_sat(T, n1, n2))

\* math::mul_sat(n1, n2)
MulSat == MathReturns("mul_sat", FALSE, mul_sat(T, n1, n2))

\* math::add_overflows(n1, n2)
AddOverflows == MathReturns("add_overflows", FALSE, add_overflows(T, n1, n2))

\* math::sub_overflows(n1, n2)
SubOverflows == MathReturns("sub_overflows", FALSE, sub_overflows(T, n1, n2))

\* math::saturate_cast<To>(n1) and math::in_range<To>(n1) for a type To as
\* wide as the type of n1 or narrower; arg holds To
SaturateCast ==
    \E to \in ShortTypes \cup MathTypes :
        /\ op' = "saturate_cast"
        /\ arg' = to
        /\ ret' = [cast |-> saturate_cast(to, T, n1), in_range |-> in_range(to, T, n1)]
        /\ fault' = "none"
        /\ UNCHANGED <<T, n1, n2, data, last>>
        /\ UNCHANGED biguint

\* math::div_sat(n1, n2)
DivSat == MathReturns("div_sat", n2 = 0, div_sat(T, n1, n2))

NextMath ==
    \/ DivFloor
    \/ DivCeil
    \/ MulOverflows
    \/ AddSat
    \/ SubSat
    \/ MulSat
    \/ DivSat
    \/ AddOverflows
    \/ SubOverflows
    \/ SaturateCast

SpecMath == InitMath /\ [][NextMath]_vars

\* ------------------------------------------------------------ the number
\* The number a word storage denotes: sum of s[i] * 2^(word_bits * i).
RECURSIVE ValFrom(_, _)
ValFrom(s, i) ==
    IF i >= words THEN 0 ELSE s[i] + WordMod * ValFrom(s, i + 1)

Val(s) == ValFrom(s, 0)

\* 2^(word_bits * words), the modulus of the padded width
TotalMod == Pow2(bits)

AllOnes == [i \in 0 .. words - 1 |-> WordMax]

One == [i \in 0 .. words - 1 |-> IF i = 0 THEN 1 ELSE 0]

\* bit b of the number a storage denotes
NumBit(s, b) == (Val(s) \div Pow2(b)) % 2 = 1

\* ---------------------------------------------------------------- claims

\* C1: for every x and nonzero y, (x / y) * y + (x % y) == x with the BigUint
\* operators.
C1_DivRemIdentity ==
    (op = "div" /\ to_bool(y)) => add(multiply(quot, y), rem) = x

\* C2: for all x and y, (x + y) - y == x, overflow of the padded width included.
C2_AddSubInverse ==
    op = "add" => substract(res, y) = x

\* C2 witness: a sum over several words that overflowed the padded width.
C2_Witness ==
    /\ op = "add"
    /\ words >= 2
    /\ Val(x) + Val(y) >= TotalMod
    /\ substract(res, y) = x

\* C3: x + y is (X + Y) mod 2^(word_bits * words) and x - y is (X - Y) mod
\* 2^(word_bits * words); all_ones + 1 == 0 and 0 - 1 == all_ones.
C3_AddSubWrap ==
    /\ op = "add" => Val(res) = (Val(x) + Val(y)) % TotalMod
    /\ op = "sub" => Val(res) = (Val(x) + TotalMod - Val(y)) % TotalMod
    /\ (op = "add" /\ x = AllOnes /\ y = One) => res = Zero
    /\ (op = "sub" /\ x = Zero /\ y = One) => res = AllOnes

\* C3 witness: 0 - 1 on a value of three words gave all ones.
C3_Witness ==
    /\ op = "sub"
    /\ words >= 3
    /\ x = Zero
    /\ y = One
    /\ res = AllOnes

\* C4: x * y is (X * Y) mod 2^(word_bits * words) on every path of the
\* dispatcher; x * 1 == x and x * 0 == 0.
C4_MulWrap ==
    op = "mul" =>
        /\ Val(res) = (Val(x) * Val(y)) % TotalMod
        /\ y = One => res = x
        /\ y = Zero => res = Zero

\* C4 witness: long_multiply with the operands swapped and a product that
\* wrapped.
C4_Witness ==
    /\ op = "mul"
    /\ significant_words(x) >= 2
    /\ significant_words(y) > significant_words(x)
    /\ Val(x) * Val(y) >= TotalMod
    /\ Val(res) = (Val(x) * Val(y)) % TotalMod

\* C5: x < y iff X < Y, x <= y iff X <= Y, and >, >= are their numeric duals.
C5_NumericOrdering ==
    op = "compare" =>
        /\ ret.lt <=> Val(x) < Val(y)
        /\ ret.le <=> Val(x) <= Val(y)
        /\ ret.gt <=> Val(x) > Val(y)
        /\ ret.ge <=> Val(x) >= Val(y)

\* C6: for bits_to_fit >= wide_bits and every wide_type value v,
\* BigUint(v).to_int() == v and every word above the low two is zero.
C6_WideRoundTrip ==
    (op = "from_wide" /\ bits_to_fit >= wide_bits) =>
        /\ ret = arg
        /\ \A i \in (wide_bits \div word_bits) .. words - 1 : res[i] = 0

\* C6 witness: the largest wide_type value built into three words and read
\* back.
C6_Witness ==
    /\ op = "from_wide"
    /\ words >= 3
    /\ arg = WideMod - 1
    /\ ret = arg

\* C7: x << s is (X * 2^s) mod 2^(word_bits * words) and x >> s is
\* floor(X / 2^s) for every s >= 0; s = 0 leaves x unchanged and
\* s >= the total width gives zero.
C7_ShiftSemantics ==
    /\ op = "lshift" => Val(res) = (Val(x) * Pow2(arg)) % TotalMod
    /\ op = "rshift" => Val(res) = Val(x) \div Pow2(arg)
    /\ (op \in {"lshift", "rshift"} /\ arg = 0) => res = x
    /\ (op \in {"lshift", "rshift"} /\ arg >= bits) => res = Zero

\* C7 witness: a left shift over a word boundary by an amount that is no
\* whole number of words, with bits surviving in the top word.
C7_Witness ==
    /\ op = "lshift"
    /\ words >= 3
    /\ arg > word_bits
    /\ arg % word_bits # 0
    /\ res[words - 1] # 0
    /\ Val(res) = (Val(x) * Pow2(arg)) % TotalMod

\* C8: after bit_set(b, true), bit_get(b) is true; after bit_flip(b),
\* bit_get(b) is the negation of what it was; every other bit is unchanged.
C8_BitSetFlip ==
    /\ (op = "bit_set" /\ ret.value) =>
           /\ ret.get
           /\ \A b \in (0 .. bits - 1) \ {arg} : NumBit(res, b) = NumBit(x, b)
    /\ op = "bit_flip" =>
           /\ ret = ~bit_get(x, arg)
           /\ \A b \in (0 .. bits - 1) \ {arg} : NumBit(res, b) = NumBit(x, b)

\* C8 witness: a set bit above word 0 was flipped and now reads false.
C8_Witness ==
    /\ op = "bit_flip"
    /\ arg >= word_bits
    /\ bit_get(x, arg)
    /\ ret = FALSE

\* C9 (as claimed): the literal s of length L, built into a BigUint of width
\* L, serializes with to_string<false>() to exactly s.
C9_LiteralRoundTrip ==
    op = "from_string" => ret = arg

\* n characters '0'
Padding(n) == [i \in 1 .. n |-> "0"]

\* C9 (amended): to_string<false>() returns "[", then the storage bits most
\* significant first, which are bits - L padding zeros followed by s, then "]".
C9_LiteralBracketed ==
    op = "from_string" => ret = <<"[">> \o Padding(bits - size) \o arg \o <<"]">>

\* C9 witness: a literal that is no palindrome, in a width with padding.
C9_Witness ==
    /\ op = "from_string"
    /\ bits > size
    /\ size >= 3
    /\ arg[1] = "1"
    /\ arg[size] = "0"
    /\ ret = <<"[">> \o Padding(bits - size) \o arg \o <<"]">>

\* the number of bits needed to write n
RECURSIVE BitLength(_)
BitLength(n) == IF n = 0 THEN 0 ELSE 1 + BitLength(n \div 2)

\* C10: significant_bits() is the position of the highest set bit plus one, in
\* whichever word that bit lies, and 0 for the all-zero value.
C10_SignificantBits ==
    op = "significant_bits" => ret = BitLength(Val(x))

\* C11 (as claimed): for every dividend x, a division by the zero-valued
\* divisor reaches the divisor-nonzero assertion; no native division by zero
\* is carried out and no quotient is returned.
C11_ZeroDivisorAsserted ==
    (op = "div" /\ ~to_bool(y)) => fault = "assert_divisor_nonzero"

\* C13: when x and y each have at most one significant word and y is nonzero,
\* x / y holds floor(X / Y) and x % y holds X mod Y in word 0, with every
\* higher word zero.
C13_SingleWordDivide ==
    (/\ op = "div"
     /\ to_bool(y)
     /\ significant_words(x) <= 1
     /\ significant_words(y) <= 1) =>
        /\ quot[0] = Val(x) \div Val(y)
        /\ rem[0] = Val(x) % Val(y)
        /\ \A i \in 1 .. words - 1 : quot[i] = 0 /\ rem[i] = 0

\* C13 witness: two single-word values in a storage of several words, divided
\* with a nonzero quotient and a nonzero remainder.
C13_Witness ==
    /\ op = "div"
    /\ words >= 2
    /\ significant_words(x) = 1
    /\ significant_words(y) = 1
    /\ fault = "none"
    /\ quot[0] = Val(x) \div Val(y)
    /\ rem[0] = Val(x) % Val(y)
    /\ quot[0] > 0
    /\ rem[0] > 0

\* an access inside the storage it goes to: word(idx) with idx < words, a bit
\* with bit < bits, carry[idx] with idx <= words (carry_storage_type has
\* words + 1 entries)
InBounds(a) ==
    CASE a[1] = "word" -> a[2] \in 0 .. words - 1
      [] a[1] = "bit" -> a[2] \in 0 .. bits - 1
      [] a[1] = "carry" -> a[2] \in 0 .. words

\* C12: no call on valid inputs (construction, shifts by any amount, add,
\* subtract, multiply, divide by a nonzero divisor, significant_bits, to_int,
\* to_string) touches storage out of bounds: every word(i) has i < words,
\* every bit_get / bit_set has bit < bits, every carry index is <= words.
C12_AccessesInBounds ==
    ~(op = "div" /\ ~to_bool(y)) => \A a \in touched : InBounds(a)

\* C12 witness: a long division over three words that touched the top bit
\* and the top word and stayed in bounds.
C12_Witness ==
    /\ op = "div"
    /\ words >= 3
    /\ significant_words(y) >= 2
    /\ <<"bit", bits - 1>> \in touched
    /\ <<"word", words - 1>> \in touched
    /\ \A a \in touched : InBounds(a)

\* the w-bit circular left and right rotations of the bit pattern u
RotlPattern(u, s, w) == ((u * Pow2(s)) % Pow2(w)) + (u \div Pow2(w - s))

RotrPattern(u, s, w) == (u \div Pow2(s)) + ((u * Pow2(w - s)) % Pow2(w))

\* C14: for an unsigned x of width w and 0 < s < w, rotl and rotr are the
\* circular rotations and lshift and rshift drop the bits shifted out and fill
\* with zeros; for the 8-bit value 19: rotl by 6 is 196, rotr by 1 is 137,
\* lshift by 6 is 192, rshift by 1 is 9.
C14_UnsignedRotateShift ==
    (~is_signed(T) /\ T \in NativeTypes /\ arg \in 1 .. size_of(T) - 1) =>
        LET w == size_of(T)
        IN  /\ op \in {"bit_rotl", "bits_rotl"} =>
                   fault = "none" /\ ret = RotlPattern(n1, arg, w)
            /\ op \in {"bit_rotr", "bits_rotr"} =>
                   fault = "none" /\ ret = RotrPattern(n1, arg, w)
            /\ op = "bit_lshift" => fault = "none" /\ ret = (n1 * Pow2(arg)) % Pow2(w)
            /\ op = "bit_rshift" => fault = "none" /\ ret = n1 \div Pow2(arg)
            /\ (op = "bit_rotl" /\ n1 = 19 /\ arg = 6) => ret = 196
            /\ (op = "bit_rotr" /\ n1 = 19 /\ arg = 1) => ret = 137
            /\ (op = "bit_lshift" /\ n1 = 19 /\ arg = 6) => ret = 192
            /\ (op = "bit_rshift" /\ n1 = 19 /\ arg = 1) => ret = 9

\* C14 witness: the 8-bit value 19 rotated left by 6 gave 196.
C14_Witness ==
    /\ op = "bit_rotl"
    /\ T = "uint8_t"
    /\ n1 = 19
    /\ arg = 6
    /\ fault = "none"
    /\ ret = 196

\* C15 (as claimed): rotl(x, 0) == x and rotr(x, 0) == x for every x, and no
\* shift-amount assertion is violated along the way.
C15_RotateByZero ==
    (op \in {"bit_rotl", "bit_rotr", "bits_rotl", "bits_rotr"} /\ arg = 0) =>
        fault = "none" /\ ret = n1

\* C16 (as claimed): for a signed v of width w and 0 < s < w, bit::rotl(v, s)
\* and bit::rotr(v, s) have the bit pattern of the w-bit circular rotation of
\* the bit pattern of v.
C16_SignedRotateAsUnsigned ==
    (T \in NativeTypes /\ is_signed(T) /\ arg \in 1 .. size_of(T) - 1) =>
        /\ op = "bit_rotl" =>
               make_unsigned(T, ret) = RotlPattern(make_unsigned(T, n1), arg, size_of(T))
        /\ op = "bit_rotr" =>
               make_unsigned(T, ret) = RotrPattern(make_unsigned(T, n1), arg, size_of(T))

\* bit k of the bit pattern u
PatternBit(u, k) == (u \div Pow2(k)) % 2

\* C17: bit::get(x, b) is bit b of x; bit::set, bit::clear and bit::flip
\* return x with bit b set, cleared and inverted and every other bit
\* unchanged; for 19: set bit 2 is 23, clear bit 0 is 18, flip bit 1 is 17.
C17_GetSetClearFlip ==
    T \in NativeTypes =>
        LET u == make_unsigned(T, n1)
            r == make_unsigned(T, ret)
            Others == (0 .. size_of(T) - 1) \ {arg}
        IN  /\ op = "bit_get" => fault = "none" /\ (ret <=> PatternBit(u, arg) = 1)
            /\ op = "bit_set_native" =>
                   /\ fault = "none"
                   /\ PatternBit(r, arg) = 1
                   /\ \A k \in Others : PatternBit(r, k) = PatternBit(u, k)
            /\ op = "bit_clear" =>
                   /\ fault = "none"
                   /\ PatternBit(r, arg) = 0
                   /\ \A k \in Others : PatternBit(r, k) = PatternBit(u, k)
            /\ op = "bit_flip_native" =>
                   /\ fault = "none"
                   /\ PatternBit(r, arg) = 1 - PatternBit(u, arg)
                   /\ \A k \in Others : PatternBit(r, k) = PatternBit(u, k)
            /\ (op = "bit_set_native" /\ n1 = 19 /\ arg = 2) => ret = 23
            /\ (op = "bit_clear" /\ n1 = 19 /\ arg = 0) => ret = 18
            /\ (op = "bit_flip_native" /\ n1 = 19 /\ arg = 1) => ret = 17

\* C17 witness: bit 0 of the 8-bit value 19 was cleared and gave 18.
C17_Witness ==
    /\ op = "bit_clear"
    /\ T = "uint8_t"
    /\ n1 = 19
    /\ arg = 0
    /\ fault = "none"
    /\ ret = 18

\* contains(f) for every enumerator f agrees with the last call that named f
MembershipFollowsLastCall ==
    \A f \in Enumerators : flags_contains(data, f) <=> last[f] = "add"

\* one add or remove call leaves every flag it does not name as it was, and
\* a remove of absent flags leaves data as it was
CallKeepsUnnamedFlags ==
    /\ \A f \in Enumerators \ arg' : flags_contains(data', f) <=> flags_contains(data, f)
    /\ (/\ op' \in {"flags_remove", "flags_remove_flags"}
        /\ \A f \in arg' : ~flags_contains(data, f)) => data' = data

\* C18: for Flags<E> over single-bit flags, after any sequence of add and
\* remove calls from an empty Flags, contains(f) holds exactly when the last
\* call naming f was an add; add and remove never change the membership of a
\* flag they do not name; remove of an absent flag is a no-op.
C18_FlagsMembership ==
    []MembershipFollowsLastCall /\ [][CallKeepsUnnamedFlags]_vars

\* C18 witness: a flag was added, then removed, while another flag added
\* before stayed in.
C18_Witness ==
    /\ op = "flags_remove"
    /\ \E f \in arg : last[f] = "remove" /\ ~flags_contains(data, f)
    /\ \E g \in Enumerators \ arg : last[g] = "add" /\ flags_contains(data, g)

\* q is the floor of the rational a / b
IsFloor(q, a, b) ==
    IF b > 0 THEN q * b <= a /\ a < (q + 1) * b
    ELSE q * b >= a /\ a > (q + 1) * b

\* q is the ceiling of the rational a / b
IsCeil(q, a, b) ==
    IF b > 0 THEN (q - 1) * b < a /\ a <= q * b
    ELSE (q - 1) * b > a /\ a >= q * b

\* the quotient a / b has a value in T
QuotientRepresentable(t, a, b) ==
    ~(is_signed(t) /\ a = numeric_min(t) /\ b = 0 - 1)

\* C19: for all integers a and b # 0 of every sign combination (quotient
\* representable), div_floor(a, b) is floor(a / b) and div_ceil(a, b) is
\* ceil(a / b); both equal a / b when b divides a.
C19_DivFloorCeil ==
    (T \in MathTypes /\ n2 # 0 /\ QuotientRepresentable(T, n1, n2)) =>
        /\ op = "div_floor" => fault = "none" /\ IsFloor(ret, n1, n2)
        /\ op = "div_ceil" => fault = "none" /\ IsCeil(ret, n1, n2)
        /\ (op \in {"div_floor", "div_ceil"} /\ \E q \in NativeValues(T) : q * n2 = n1) =>
               ret * n2 = n1

\* C19 witness: a negative dividend and a positive divisor that does not
\* divide it, rounded down below the truncated quotient.
C19_Witness ==
    /\ op = "div_floor"
    /\ T = "int"
    /\ n1 < 0
    /\ n2 > 1
    /\ native_rem(n1, n2) # 0
    /\ fault = "none"
    /\ ret = native_div(n1, n2) - 1
    /\ IsFloor(ret, n1, n2)

\* C20: mul_overflows(l, r) is true exactly when the product l * r lies
\* outside [min, max], for every sign combination: min * -1 is true,
\* max * -1 is false, a zero operand is false; evaluating it performs no
\* overflowing multiplication or division.
C20_MulOverflows ==
    (op = "mul_overflows" /\ T \in MathTypes) =>
        /\ fault = "none"
        /\ \A d \in arg : ~division_undefined(T, d[1], d[2])
        /\ ret <=> (n1 * n2 < numeric_min(T) \/ n1 * n2 > numeric_max(T))
        /\ (is_signed(T) /\ n1 = numeric_min(T) /\ n2 = 0 - 1) => ret
        /\ (is_signed(T) /\ n1 = numeric_max(T) /\ n2 = 0 - 1) => ~ret
        /\ (n1 = 0 \/ n2 = 0) => ~ret

\* C20 witness: min * -1 in the signed type, reported as overflowing after
\* the division max / min.
C20_Witness ==
    /\ op = "mul_overflows"
    /\ T = "int"
    /\ n1 = numeric_min(T)
    /\ n2 = 0 - 1
    /\ arg = {<<numeric_max(T), numeric_min(T)>>}
    /\ fault = "none"
    /\ ret = TRUE


\* the exact result of a saturated operation on the integers a and b
ExactResult(o, a, b) ==
    CASE o = "add_sat" -> a + b
      [] o = "sub_sat" -> a - b
      [] o = "mul_sat" -> a * b
      [] o = "div_sat" -> native_div(a, b)

\* n brought into the range of T
Clamp(t, n) ==
    IF n > numeric_max(t) THEN numeric_max(t)
    ELSE IF n < numeric_min(t) THEN numeric_min(t)
    ELSE n

\* C21: add_sat, sub_sat, mul_sat and div_sat (nonzero divisor) return the
\* exact result when it is representable in the type, the type's max when it
\* exceeds max and the type's min when it is below min, for the signed and
\* the unsigned type, without evaluating an overflowing expression.
C21_SaturatedMath ==
    (T \in MathTypes /\ op \in {"add_sat", "sub_sat", "mul_sat", "div_sat"}
        /\ (op = "div_sat" => n2 # 0)) =>
        /\ fault = "none"
        /\ ret = Clamp(T, ExactResult(op, n1, n2))

\* C21 witness: mul_sat(min, -1) in the signed type saturates to max.
C21_Witness ==
    /\ op = "mul_sat"
    /\ T = "int"
    /\ n1 = numeric_min(T)
    /\ n2 = 0 - 1
    /\ fault = "none"
    /\ ret = numeric_max(T)

\* C22: ++x yields (X + 1) mod 2^(word_bits*words) and --x yields (X - 1) mod
\* 2^(word_bits*words) on both branches; the single-word branch runs only
\* when word 0 needs no carry (it is not at its maximum) or no borrow (it is
\* not zero), and otherwise the carry or borrow reaches the higher words.
C22_IncrementDecrement ==
    /\ op = "increment" =>
           /\ Val(res) = (Val(x) + 1) % TotalMod
           /\ ret = "fast" => x[0] # WordMax
    /\ op = "decrement" =>
           /\ Val(res) = (Val(x) - 1) % TotalMod
           /\ ret = "fast" => x[0] # 0

\* C22 witness: --x on zero in three words borrows through every word.
C22_Witness ==
    /\ op = "decrement"
    /\ words = 3
    /\ x = Zero
    /\ ret = "substract"
    /\ res = AllOnes

\* C23: for every x and every nonzero single-word divisor y, x / y and x % y
\* (short_divide when x has more than one significant word) give
\* quot == floor(X / y) and rem == X mod y, with rem smaller than y.
C23_ShortDivide ==
    (op = "div" /\ significant_words(y) = 1) =>
        /\ Val(quot) = Val(x) \div Val(y)
        /\ Val(rem) = Val(x) % Val(y)
        /\ Val(rem) < Val(y)

\* C24: for every x and every divisor y with two or more significant words,
\* x / y and x % y (long_divide) give quot == floor(X / Y) and
\* rem == X mod Y, with rem numerically less than Y.
C24_LongDivide ==
    (op = "div" /\ significant_words(y) >= 2) =>
        /\ Val(quot) = Val(x) \div Val(y)
        /\ Val(rem) = Val(x) % Val(y)
        /\ Val(rem) < Val(y)

C26_BoundedSteps ==
    ~(op = "div" /\ ~to_bool(y)) => steps <= StepBound

\* C26 witness: a shift by whole words in three words, whose descending loop
\* stops at index wshift = 1 after words - 1 rounds, then one zero-fill round.
C26_Witness ==
    /\ op = "lshift"
    /\ words = 3
    /\ arg = word_bits
    /\ steps = words
    /\ steps <= StepBound

\* C27: bit_set(b, v) makes bit b equal to v for both values of v: after
\* bit_set(b, false), bit_get(b) returns false whatever the bit held before,
\* after bit_set(b, true) it returns true, and every other bit is unchanged.
C27_BitSetBothValues ==
    op = "bit_set" =>
        /\ ret.get = ret.value
        /\ \A b \in (0 .. bits - 1) \ {arg} : NumBit(res, b) = NumBit(x, b)

\* C28: the comparison operators form a consistent strict total order:
\* exactly one of x < y, x == y, x > y holds; x < y and y < x never both
\* hold; x <= y holds iff x < y or x == y.
C28_StrictTotalOrder ==
    op = "compare" =>
        /\ Cardinality({r \in {"lt", "eq", "gt"} : ret[r]}) = 1
        /\ ~(op_lt(x, y) /\ op_lt(y, x))
        /\ ret.le <=> (ret.lt \/ ret.eq)

\* C29: add_overflows(l, r) is true exactly when the exact sum l + r lies
\* outside the type's range and sub_overflows(l, r) exactly when l - r does,
\* which are the cases where add_sat and sub_sat return a bound instead of
\* the exact result.
C29_AddSubOverflows ==
    /\ (op = "add_overflows" /\ T \in MathTypes) =>
           /\ fault = "none"
           /\ ret <=> (n1 + n2 \notin NativeValues(T))
           /\ ret <=> (add_sat(T, n1, n2).v # n1 + n2)
    /\ (op = "sub_overflows" /\ T \in MathTypes) =>
           /\ fault = "none"
           /\ ret <=> (n1 - n2 \notin NativeValues(T))
           /\ ret <=> (sub_sat(T, n1, n2).v # n1 - n2)

\* C30: saturate_cast<To>(v) returns v when v is representable in To, To's
\* minimum when v is below it and To's maximum when v is above it, for every
\* combination of signed and unsigned From and To; the result equals v iff
\* in_range<To>(v).
C30_SaturateCast ==
    (op = "saturate_cast" /\ T \in MathTypes) =>
        /\ ret.cast = Clamp(arg, n1)
        /\ (ret.cast = n1) <=> ret.in_range

====
